---- MODULE Spec2Model ----
(***************************************************************************)
(* A model of two React units of the Across frontend:                      *)
(*                                                                         *)
(*   - useTransactionsView (src/src/views/Transactions/                    *)
(*     useTransactionsView.ts): the hook that starts and stops the         *)
(*     transfer-history client for the connected account, mirrors the      *)
(*     client's filled and pending transfers into React state and arms a   *)
(*     deadline timeout that stops the fetching;                           *)
(*   - AddLiquidityForm (src/unnamed/part_001): the form that checks the   *)
(*     ERC20 allowance, requests an approval and submits a liquidity       *)
(*     transaction.                                                        *)
(*                                                                         *)
(* Each unit has its own specification (SpecTransactions, SpecLiquidity);  *)
(* the variables of the other unit stay at their initial value.            *)
(***************************************************************************)
EXTENDS Integers, Sequences, FiniteSets, TLC

\* ------------------------------------------------------------------ bounds

\* Number of distinct transfers the history client can know per depositor.
MaxTransfers == 1
\* Number of setTimeout handles the hook may create in one behaviour.
MaxTimers == 2
\* Number of times the hook may be mounted in one behaviour.
MaxMounts == 2

\* Largest token balance of the form, in base units.
MaxBalance == 1
\* Number of allowance queries that may be in flight at once.
MaxChecks == 1
\* Number of transactions the form may request in one behaviour.
MaxTxs == 2

\* --------------------------------------------------------------- constants

NoAccount == ""
Accounts == {"0xAA", "0xBB"}
AccountValues == Accounts \cup {NoAccount}
Transfers == 1..MaxTransfers
\* `undefined` of useState<NodeJS.Timeout | undefined>()
NoTimer == 0

VARIABLES
    \* ---- useConnection() and the lifetime of the hook
    account,        \* the connected account, NoAccount when there is none
    mounted,        \* whether a component using the hook is mounted
    mounts,         \* how many times the hook has been mounted
    \* ---- React state of useTransactionsView
    rawFilledTx,    \* useState<Transfer[]>: ids of the filled transfers shown
    rawOngoingTx,   \* useState<Transfer[]>: ids of the pending transfers shown
    initialLoading, \* useState(false)
    timer,          \* useState<Timeout>: the value of the last committed render
    timerNext,      \* the value setTimer has queued for the next render
    \* ---- the JavaScript timer table
    armed,          \* the timeouts that are armed: [id, acct, inst]
    nextHandle,     \* the next handle setTimeout returns
    \* ---- the transfer history client (txClient)
    fetching,       \* accounts with startFetchingTransfers not yet stopped
    startReq,       \* outcome of the latest startFetchingTransfers promise
    polling,        \* accounts for which the client has a request in flight:
                    \* those it is fetching, and stopped ones still to answer
    clientFilled,   \* what getFilledTransfers(a) returns
    clientPending,  \* what getPendingTransfers(a) returns
    listeners,      \* TransfersUpdated listeners registered on the client
    lastCalls,      \* the client calls the most recent step issued, in order
    \* ---- useConnection() as AddLiquidityForm sees it
    wallet,         \* "none": no provider; "provider": provider, not
                    \* connected; "connected": provider, signer and account
    \* ---- props of AddLiquidityForm
    symbol,         \* the asset of the pool, "ETH" for the native asset
    balance,        \* the user's balance of the asset, in base units
    amount,         \* the text of the amount input
    \* ---- React state of AddLiquidityForm
    userNeedsToApprove,
    txSubmitted,
    \* ---- the chain and the requests in flight
    allowance,      \* allowance of the pool of each token, as a uint256
    checks,         \* token.allowance queries in flight: [token, required]
    walletCalls,    \* approve / add-liquidity calls awaiting the wallet
    pendingTx,      \* transactions whose notify emitter is subscribed
    nextHash,       \* the hash the next transaction gets
    lastRequest,    \* what the most recent step asked of wallet or network,
                    \* or that the wallet has just returned nothing
    \* ---- state of the parent that the form sets through its props
    showSuccess,    \* set by setShowSuccess
    depositUrl,     \* set by setDepositUrl
    \* ---- the refresh of the pool client
    refreshes,      \* setTimeout callbacks waiting to refresh the pool:
                    \* [pool, delay, waited]
    poolCalls       \* the updatePool / updateUser calls of the most recent step

txVars == <<account, mounted, mounts, rawFilledTx, rawOngoingTx, initialLoading,
            timer, timerNext, armed, nextHandle, fetching, startReq, polling,
            clientFilled, clientPending, listeners, lastCalls>>

formVars == <<wallet, symbol, balance, amount, userNeedsToApprove, txSubmitted,
              allowance, checks, walletCalls, pendingTx, nextHash, lastRequest,
              showSuccess, depositUrl, refreshes, poolCalls>>

vars == <<txVars, formVars>>

\* ------------------------------------------------- transfer history client

Call(op, a) == [op |-> op, acct |-> a]

\* The accounts being fetched after the client has served the calls cs in order.
RECURSIVE ApplyCalls(_, _)
ApplyCalls(f, cs) ==
    IF cs = <<>> THEN f
    ELSE ApplyCalls(IF Head(cs).op = "start" THEN f \cup {Head(cs).acct}
                                             ELSE f \ {Head(cs).acct},
                    Tail(cs))

\* ------------------------------------------------------ useTransactionsView

\* The cleanup the account effect returned for account a.
CleanupCalls(a) ==
    IF a # NoAccount THEN <<Call("stop", a)>> ELSE <<>>

\* The client calls of the account effect's body for account b.
EffectCalls(b) ==
    IF b # NoAccount THEN <<Call("start", b)>> ELSE <<>>

\* AccountEffectCalls with the new session started before the old one is stopped.
AccountEffectCallsStartFirst(a, b) == EffectCalls(b) \o CleanupCalls(a)

\* React runs the cleanup of the previous effect before the next effect.
AccountEffectCalls(a, b) == CleanupCalls(a) \o EffectCalls(b)

\* The timeouts left armed when the timer effect's cleanup runs for handle h
\* (clearInterval clears a timeout: the two share one table of handles).
TimerCleanup(h, table) ==
    IF h # NoTimer THEN {t \in table : t.id # h} ELSE table

\* CleanupSnapshot without the setRawFilledTx([]) / setRawOngoingTx([]) calls.
CleanupSnapshotKept(a, snapshot) == snapshot

\* The snapshots after the account effect's cleanup for account a.
CleanupSnapshot(a, snapshot) ==
    IF a # NoAccount THEN {} ELSE snapshot

InitTransactions ==
    /\ account = NoAccount
    /\ mounted = FALSE
    /\ mounts = 0
    /\ rawFilledTx = {}
    /\ rawOngoingTx = {}
    /\ initialLoading = FALSE
    /\ timer = NoTimer
    /\ timerNext = NoTimer
    /\ armed = {}
    /\ nextHandle = 1
    /\ fetching = {}
    /\ startReq = "none"
    /\ polling = {}
    /\ clientFilled = [a \in Accounts |-> {}]
    /\ clientPending = [a \in Accounts |-> {}]
    /\ listeners = 0
    /\ lastCalls = <<>>

\* The account effect for a render in which the account went from a to b
\* (a = NoAccount on mount) in hook instance inst: cleanup for a, then the
\* body for b.  The render also commits the pending timer state, so the timer
\* effect's cleanup runs for the previously committed handle when the handle
\* changed.
RunEffects(a, b, inst) ==
    LET cleared == IF timerNext # timer THEN TimerCleanup(timer, armed) ELSE armed
    IN  /\ lastCalls' = AccountEffectCalls(a, b)
        /\ fetching' = ApplyCalls(fetching, lastCalls')
        /\ polling' = polling \cup fetching'
        /\ rawFilledTx' = CleanupSnapshot(a, rawFilledTx)
        /\ rawOngoingTx' = CleanupSnapshot(a, rawOngoingTx)
        /\ timer' = timerNext
        /\ IF b # NoAccount
           THEN /\ initialLoading' = TRUE
                /\ startReq' = "pending"
                /\ armed' = cleared \cup
                       {[id |-> nextHandle, acct |-> b, inst |-> inst]}
                /\ timerNext' = nextHandle
                /\ nextHandle' = nextHandle + 1
           ELSE /\ startReq' = IF a # NoAccount THEN "none" ELSE startReq
                /\ armed' = cleared
                /\ UNCHANGED <<initialLoading, timerNext, nextHandle>>

\* The first render of the hook and its mount effects: the listener is
\* registered on the client and the account effect runs for the account.
Mount ==
    /\ ~mounted
    /\ mounts < MaxMounts
    /\ account # NoAccount => nextHandle <= MaxTimers
    /\ mounted' = TRUE
    /\ mounts' = mounts + 1
    /\ listeners' = listeners + 1
    /\ RunEffects(NoAccount, account, mounts + 1)
    /\ UNCHANGED <<account, clientFilled, clientPending>>
    /\ UNCHANGED formVars

\* useConnection() reports another account (or none).
AccountChange(b) ==
    /\ b # account
    /\ account' = b
    /\ IF mounted
       THEN /\ b # NoAccount => nextHandle <= MaxTimers
            /\ RunEffects(account, b, mounts)
       ELSE /\ lastCalls' = <<>>
            /\ UNCHANGED <<rawFilledTx, rawOngoingTx, initialLoading, timer,
                           timerNext, armed, nextHandle, fetching, startReq,
                           polling>>
    /\ UNCHANGED <<mounted, mounts, clientFilled, clientPending, listeners>>
    /\ UNCHANGED formVars

\* The render that setTimer scheduled: the timer effect's cleanup runs for the
\* handle of the previous render.
TimerRender ==
    /\ mounted
    /\ timerNext # timer
    /\ armed' = TimerCleanup(timer, armed)
    /\ timer' = timerNext
    /\ lastCalls' = <<>>
    /\ UNCHANGED <<account, mounted, mounts, rawFilledTx, rawOngoingTx,
                   initialLoading, timerNext, nextHandle, fetching, startReq,
                   polling, clientFilled, clientPending, listeners>>
    /\ UNCHANGED formVars

\* A deadline callback that calls nothing.
DeadlineCallsNone(t) == <<>>

\* The client calls of the deadline callback of timeout t.
DeadlineCalls(t) == <<Call("stop", t.acct)>>

\* DeadlineFires with the deadline callback clearing the snapshots the way the
\* account effect's cleanup does.
DeadlineFiresClearing(t) ==
    /\ t \in armed
    /\ armed' = armed \ {t}
    /\ lastCalls' = DeadlineCalls(t)
    /\ fetching' = ApplyCalls(fetching, lastCalls')
    /\ timerNext' = IF mounted /\ t.inst = mounts THEN NoTimer ELSE timerNext
    /\ rawFilledTx' = {}
    /\ rawOngoingTx' = {}
    /\ UNCHANGED <<account, mounted, mounts, initialLoading, timer, nextHandle,
                   startReq, polling, clientFilled, clientPending, listeners>>
    /\ UNCHANGED formVars

\* A deadline timeout fires (MAX_TIME_FOR_FETCHING_TX after it was armed).
DeadlineFires(t) ==
    /\ t \in armed
    /\ armed' = armed \ {t}
    /\ lastCalls' = DeadlineCalls(t)
    /\ fetching' = ApplyCalls(fetching, lastCalls')
    /\ timerNext' = IF mounted /\ t.inst = mounts THEN NoTimer ELSE timerNext
    /\ UNCHANGED <<account, mounted, mounts, rawFilledTx, rawOngoingTx,
                   initialLoading, timer, nextHandle, startReq, polling,
                   clientFilled, clientPending, listeners>>
    /\ UNCHANGED formVars

\* The component is removed: the cleanups of the last committed render run.
Unmount ==
    /\ mounted
    /\ mounted' = FALSE
    /\ lastCalls' = CleanupCalls(account)
    /\ fetching' = ApplyCalls(fetching, lastCalls')
    /\ armed' = TimerCleanup(timer, armed)
    /\ rawFilledTx' = {}
    /\ rawOngoingTx' = {}
    /\ initialLoading' = FALSE
    /\ timer' = NoTimer
    /\ timerNext' = NoTimer
    /\ startReq' = "none"
    /\ UNCHANGED <<account, mounts, nextHandle, polling, clientFilled,
                   clientPending, listeners>>
    /\ UNCHANGED formVars

\* The promise of the latest startFetchingTransfers call resolves.
StartFetchingResolved ==
    /\ startReq = "pending"
    /\ startReq' = "ok"
    /\ lastCalls' = <<>>
    /\ UNCHANGED <<account, mounted, mounts, rawFilledTx, rawOngoingTx,
                   initialLoading, timer, timerNext, armed, nextHandle,
                   fetching, polling, clientFilled, clientPending, listeners>>
    /\ UNCHANGED formVars

\* The promise rejects: the .catch handler logs the error with console.error.
StartFetchingRejected ==
    /\ startReq = "pending"
    /\ startReq' = "failed"
    /\ lastCalls' = <<>>
    /\ UNCHANGED <<account, mounted, mounts, rawFilledTx, rawOngoingTx,
                   initialLoading, timer, timerNext, armed, nextHandle,
                   fetching, polling, clientFilled, clientPending, listeners>>
    /\ UNCHANGED formVars

\* The stores the client may hold for depositor a after a request returned:
\* known transfers stay known, filled ones stay filled, and a transfer is
\* filled or pending, never both.
ClientStores(a) ==
    {st \in (SUBSET Transfers) \X (SUBSET Transfers) :
        /\ st[1] \cap st[2] = {}
        /\ clientFilled[a] \subseteq st[1]
        /\ clientPending[a] \subseteq st[1] \cup st[2]}

\* OnTransfersUpdated with the pending transfers read before the client
\* updated its store, the filled ones after.
OnTransfersUpdatedStalePending(d) ==
    /\ initialLoading' = FALSE
    /\ rawFilledTx' = clientFilled'[d]
    /\ rawOngoingTx' = clientPending[d]

\* The TransfersUpdated listener of the hook, for event data.depositorAddr = d.
OnTransfersUpdated(d) ==
    /\ initialLoading' = FALSE
    /\ rawFilledTx' = clientFilled'[d]
    /\ rawOngoingTx' = clientPending'[d]

\* A request in flight for depositor a returns: the client updates its store
\* and emits TransfersUpdated, which runs the listener synchronously.  The
\* client sends the next request while it is still fetching a.  The listener
\* of an unmounted hook sets the state of a dead component.
TransfersUpdated(a) ==
    /\ a \in polling
    /\ polling' = IF a \in fetching THEN polling ELSE polling \ {a}
    /\ \E st \in ClientStores(a) :
          /\ clientFilled' = [clientFilled EXCEPT ![a] = st[1]]
          /\ clientPending' = [clientPending EXCEPT ![a] = st[2]]
    /\ IF mounted
       THEN OnTransfersUpdated(a)
       ELSE UNCHANGED <<rawFilledTx, rawOngoingTx, initialLoading>>
    /\ lastCalls' = <<>>
    /\ UNCHANGED <<account, mounted, mounts, timer, timerNext, armed,
                   nextHandle, fetching, startReq, listeners>>
    /\ UNCHANGED formVars

NextTransactions ==
    \/ Mount
    \/ \E b \in AccountValues : AccountChange(b)
    \/ TimerRender
    \/ \E t \in armed : DeadlineFires(t)
    \/ Unmount
    \/ StartFetchingResolved
    \/ StartFetchingRejected
    \/ \E a \in Accounts : TransfersUpdated(a)


\* ---------------------------------------------------------- AddLiquidityForm

Symbols == {"ETH", "USDC"}
Tokens == Symbols \ {"ETH"}
\* A text is the sequence of its characters.
AmountInputs == {<<"a", "b", "c">>, <<"0">>, <<"1">>}
NoRequest == [kind |-> "none"]
\* The deposit URL before any deposit was confirmed.
NoUrl == <<>>
\* The delay of the refresh after a confirmed deposit, in milliseconds.
REFRESH_DELAY == 30000
\* The time that passes in one step of the clock.
TickMs == REFRESH_DELAY

\* A uint256 as 16 limbs of 16 bits, least significant first.
Uint256(n) == [i \in 1..16 |-> IF i = 1 THEN n ELSE 0]

\* The balances of a token, in base units.
Balances == {Uint256(n) : n \in 0..MaxBalance}

\* The balance prop of the pool of asset s.  The balance of ETH is read by the
\* max button only; it is varied where the max button is (SpecMax).
BalancesOf(s) == IF s = "ETH" THEN {Uint256(0)} ELSE Balances

\* BigNumber.lt on uint256 values.
Lt(x, y) ==
    \E i \in 1..16 : x[i] < y[i] /\ \A j \in (i + 1)..16 : x[j] = y[j]

\* ethers.constants.MaxUint256
MAX_UINT_VAL == [i \in 1..16 |-> 2^16 - 1]

\* An approval of exactly the balance, instead of the maximum.
ExactApprovalAmount == balance

INFINITE_APPROVAL_AMOUNT == MAX_UINT_VAL

\* The bridgeAddress prop: the pool of the asset.
bridgeAddress == [pool |-> symbol]

isConnected == wallet = "connected"
provider == wallet # "none"
signer == wallet = "connected"

Digits == <<"0", "1", "2", "3", "4", "5", "6", "7", "8", "9">>
IsDigit(c) == \E i \in 1..10 : Digits[i] = c
DigitValue(c) == (CHOOSE i \in 1..10 : Digits[i] = c) - 1

\* The text without its sign.
Unsigned(text) ==
    IF text # <<>> /\ Head(text) \in {"-", "+"} THEN Tail(text) ELSE text

\* The digits before and after the decimal point of an unsigned text.
IntegerPart(text) ==
    IF \E i \in 1..Len(text) : text[i] = "."
    THEN SubSeq(text, 1, (CHOOSE i \in 1..Len(text) : text[i] = ".") - 1)
    ELSE text
FractionPart(text) ==
    IF \E i \in 1..Len(text) : text[i] = "."
    THEN SubSeq(text, (CHOOSE i \in 1..Len(text) : text[i] = ".") + 1, Len(text))
    ELSE <<>>

\* Whether an unsigned text is a decimal literal: digits with at most one
\* decimal point and at least one digit.
IsDecimal(text) ==
    /\ Cardinality({i \in 1..Len(text) : text[i] = "."}) <= 1
    /\ \A i \in 1..Len(text) : text[i] = "." \/ IsDigit(text[i])
    /\ \E i \in 1..Len(text) : IsDigit(text[i])

\* Number(amount) for texts of digits, sign, point and letters: nan when the
\* text is not a decimal literal, else its sign and whether it is zero.  The
\* empty text is the number 0.
Number(text) ==
    [nan |-> text # <<>> /\ ~IsDecimal(Unsigned(text)),
     negative |-> text # <<>> /\ Head(text) = "-",
     zero |-> \A i \in 1..Len(text) : IsDigit(text[i]) => text[i] = "0"]

\* Number(amount) > 0, false for NaN.
IsPositive(text) ==
    ~Number(text).nan /\ ~Number(text).negative /\ ~Number(text).zero

\* The form and its parent as constructed, before a wallet is connected.
FormIdle ==
    /\ wallet = "none"
    /\ amount = <<"0">>
    /\ userNeedsToApprove = FALSE
    /\ txSubmitted = FALSE
    /\ checks = {}
    /\ walletCalls = {}
    /\ pendingTx = {}
    /\ nextHash = 1
    /\ lastRequest = NoRequest
    /\ showSuccess = FALSE
    /\ depositUrl = NoUrl
    /\ refreshes = {}
    /\ poolCalls = <<>>

InitLiquidity ==
    /\ FormIdle
    /\ symbol \in Symbols
    /\ balance \in BalancesOf(symbol)
    /\ allowance \in [Tokens -> {Uint256(0), Uint256(MaxBalance)}]

\* The allowance effect after a render with connection w, asset s and balance
\* b: checkIfUserHasToApprove is called when connected and the asset is not
\* ETH, and sends token.allowance when there are a signer and an account.
AllowanceEffect(w, s, b) ==
    IF w = "connected" /\ s # "ETH"
    THEN checks' = checks \cup {[token |-> s, required |-> b]}
    ELSE checks' = checks

\* Whether the allowance effect may send its query.
CanCheck(w, s, b) ==
    (w = "connected" /\ s # "ETH")
        => Cardinality(checks \cup {[token |-> s, required |-> b]}) <= MaxChecks

\* useConnection() reports another connection state.
WalletChange(w) ==
    /\ w # wallet
    /\ CanCheck(w, symbol, balance)
    /\ wallet' = w
    /\ AllowanceEffect(w, symbol, balance)
    /\ lastRequest' = NoRequest
    /\ UNCHANGED <<symbol, balance, amount, userNeedsToApprove, txSubmitted,
                   allowance, walletCalls, pendingTx, nextHash>>
    /\ poolCalls' = <<>>
    /\ UNCHANGED <<showSuccess, depositUrl, refreshes>>
    /\ UNCHANGED txVars

\* The parent selects another pool: symbol, tokenAddress, bridgeAddress and
\* balance change together.
SelectPool(s, b) ==
    /\ s # symbol
    /\ CanCheck(wallet, s, b)
    /\ symbol' = s
    /\ balance' = b
    /\ AllowanceEffect(wallet, s, b)
    /\ lastRequest' = NoRequest
    /\ UNCHANGED <<wallet, amount, userNeedsToApprove, txSubmitted, allowance,
                   walletCalls, pendingTx, nextHash>>
    /\ poolCalls' = <<>>
    /\ UNCHANGED <<showSuccess, depositUrl, refreshes>>
    /\ UNCHANGED txVars

\* The balance prop changes: checkIfUserHasToApprove is a new callback, so the
\* allowance effect runs again.
BalanceChange(b) ==
    /\ b # balance
    /\ CanCheck(wallet, symbol, b)
    /\ balance' = b
    /\ AllowanceEffect(wallet, symbol, b)
    /\ lastRequest' = NoRequest
    /\ UNCHANGED <<wallet, symbol, amount, userNeedsToApprove, txSubmitted,
                   allowance, walletCalls, pendingTx, nextHash>>
    /\ poolCalls' = <<>>
    /\ UNCHANGED <<showSuccess, depositUrl, refreshes>>
    /\ UNCHANGED txVars

\* The user edits the amount input; it is disabled while not connected.
AmountChange(text) ==
    /\ isConnected
    /\ text # amount
    /\ amount' = text
    /\ lastRequest' = NoRequest
    /\ UNCHANGED <<wallet, symbol, balance, userNeedsToApprove, txSubmitted,
                   allowance, checks, walletCalls, pendingTx, nextHash>>
    /\ poolCalls' = <<>>
    /\ UNCHANGED <<showSuccess, depositUrl, refreshes>>
    /\ UNCHANGED txVars

\* checkIfUserHasToApprove after token.allowance returned a, for the required
\* amount r: the flag is set when a < r and is left alone otherwise.
NeedsApprovalAfterCheck(a, r, flag) ==
    IF Lt(a, r) THEN TRUE ELSE flag

\* A token.allowance query returns.
AllowanceReturns(c) ==
    /\ c \in checks
    /\ checks' = checks \ {c}
    /\ userNeedsToApprove' =
           NeedsApprovalAfterCheck(allowance[c.token], c.required,
                                   userNeedsToApprove)
    /\ lastRequest' = NoRequest
    /\ UNCHANGED <<wallet, symbol, balance, amount, txSubmitted, allowance,
                   walletCalls, pendingTx, nextHash>>
    /\ poolCalls' = <<>>
    /\ UNCHANGED <<showSuccess, depositUrl, refreshes>>
    /\ UNCHANGED txVars

\* A token.allowance query throws: the catch logs the error.
AllowanceFails(c) ==
    /\ c \in checks
    /\ checks' = checks \ {c}
    /\ lastRequest' = NoRequest
    /\ UNCHANGED <<wallet, symbol, balance, amount, userNeedsToApprove,
                   txSubmitted, allowance, walletCalls, pendingTx, nextHash>>
    /\ poolCalls' = <<>>
    /\ UNCHANGED <<showSuccess, depositUrl, refreshes>>
    /\ UNCHANGED txVars

\* handleApprove up to its await: the approve request.
ApproveRequest ==
    [kind |-> "approve", amount |-> INFINITE_APPROVAL_AMOUNT,
     spender |-> bridgeAddress, token |-> symbol]

\* The decimals prop: the precision of the asset.
decimals == IF symbol = "ETH" THEN 18 ELSE 6

\* x * k on uint256 limbs from limb i with the carry so far, modulo 2^256.
RECURSIVE MulLimbs(_, _, _, _)
MulLimbs(x, k, i, carry) ==
    IF i > 16 THEN <<>>
    ELSE LET v == x[i] * k + carry
         IN  <<v % 2^16>> \o MulLimbs(x, k, i + 1, v \div 2^16)

\* x * 10^d as a uint256.
RECURSIVE Scale(_, _)
Scale(x, d) == IF d = 0 THEN x ELSE Scale(MulLimbs(x, 10, 1, 0), d - 1)

\* The uint256 with the decimal digits ds after those of x.
RECURSIVE ParseDigits(_, _)
ParseDigits(x, ds) ==
    IF ds = <<>> THEN x
    ELSE ParseDigits(MulLimbs(x, 10, 1, DigitValue(Head(ds))), Tail(ds))

\* toWeiSafe(text, d) for an unsigned decimal text with at most d digits after
\* the point: the number in base units of an asset with d decimals.
toWeiSafe(text, d) ==
    Scale(ParseDigits(Uint256(0), IntegerPart(text) \o FractionPart(text)),
          d - Len(FractionPart(text)))

\* A BigNumber: a sign and a uint256 magnitude.
Signed(x) == [negative |-> FALSE, magnitude |-> x]

\* x - y on uint256 limbs from limb i with the borrow so far, for x >= y.
RECURSIVE SubLimbs(_, _, _, _)
SubLimbs(x, y, i, borrow) ==
    IF i > 16 THEN <<>>
    ELSE LET v == x[i] - y[i] - borrow
         IN  <<(v + 2^16) % 2^16>>
                 \o SubLimbs(x, y, i + 1, IF v < 0 THEN 1 ELSE 0)

\* BigNumber.sub: the difference, negative when x < y.
Sub(x, y) ==
    IF Lt(x, y) THEN [negative |-> TRUE, magnitude |-> SubLimbs(y, x, 1, 0)]
    ELSE [negative |-> FALSE, magnitude |-> SubLimbs(x, y, 1, 0)]

\* x divided by k on the limbs i down to 1, with the remainder so far: the
\* quotient limbs and the remainder.
RECURSIVE DivLimbs(_, _, _, _)
DivLimbs(x, k, i, rem) ==
    IF i = 0 THEN [quotient |-> <<>>, remainder |-> rem]
    ELSE LET cur == rem * 2^16 + x[i]
             rest == DivLimbs(x, k, i - 1, cur % k)
         IN  [quotient |-> Append(rest.quotient, cur \div k),
              remainder |-> rest.remainder]

\* The decimal digits of a uint256, none for zero.
RECURSIVE DecimalDigits(_)
DecimalDigits(x) ==
    IF \A i \in 1..16 : x[i] = 0 THEN <<>>
    ELSE LET d == DivLimbs(x, 10, 16, 0)
         IN  Append(DecimalDigits(d.quotient), Digits[d.remainder + 1])

\* A text without its trailing zeros, keeping one character.
RECURSIVE StripZeros(_)
StripZeros(text) ==
    IF Len(text) > 1 /\ text[Len(text)] = "0"
    THEN StripZeros(SubSeq(text, 1, Len(text) - 1))
    ELSE text

\* ethers.utils.formatUnits(v, d): the sign, the whole part, a point and the
\* d digits of the fraction without trailing zeros ("0.0" for zero).
formatUnits(v, d) ==
    LET ds == DecimalDigits(v.magnitude)
        padded == [i \in 1..(d + 1 - Len(ds)) |-> "0"] \o ds
        whole == SubSeq(padded, 1, Len(padded) - d)
        fraction == SubSeq(padded, Len(padded) - d + 1, Len(padded))
    IN  (IF v.negative THEN <<"-">> ELSE <<>>)
            \o whole \o <<".">> \o StripZeros(fraction)

\* ethers.utils.formatEther
formatEther(v) == formatUnits(v, 18)

\* toWeiSafe("0.1"): what the max button keeps back for gas.
removeApproxMaxGas == toWeiSafe(<<"0", ".", "1">>, 18)

\* The max button with the whole balance for ETH too.
MaxAmountNoReserve == formatUnits(Signed(balance), decimals)

\* The amount the max button sets.
MaxAmount ==
    IF symbol = "ETH" THEN formatEther(Sub(balance, removeApproxMaxGas))
    ELSE formatUnits(Signed(balance), decimals)

\* The max button is clicked; it is disabled while not connected.
MaxClick ==
    /\ isConnected
    /\ amount' = MaxAmount
    /\ lastRequest' = NoRequest
    /\ poolCalls' = <<>>
    /\ UNCHANGED <<wallet, symbol, balance, userNeedsToApprove, txSubmitted,
                   allowance, checks, walletCalls, pendingTx, nextHash,
                   showSuccess, depositUrl, refreshes>>
    /\ UNCHANGED txVars

\* The liquidity branch up to its await: addEthLiquidity for ETH,
\* addTokenLiquidity otherwise.
LiquidityRequest ==
    [kind |-> IF symbol = "ETH" THEN "addEthLiquidity" ELSE "addTokenLiquidity",
     amount |-> toWeiSafe(amount, decimals), spender |-> bridgeAddress,
     token |-> symbol]

\* The handler without its check of the provider.
HandlerRequestNoInit ==
    IF isConnected /\ userNeedsToApprove THEN ApproveRequest
    ELSE IF isConnected /\ IsPositive(amount) /\ signer THEN LiquidityRequest
    ELSE NoRequest

\* What approveOrPoolTransactionHandler asks for when the button is clicked.
HandlerRequest ==
    IF ~provider THEN [kind |-> "init"]
    ELSE IF isConnected /\ userNeedsToApprove THEN ApproveRequest
    ELSE IF isConnected /\ IsPositive(amount) /\ signer THEN LiquidityRequest
    ELSE NoRequest

\* The form button is clicked: approveOrPoolTransactionHandler.
Click ==
    /\ lastRequest' = HandlerRequest
    /\ IF lastRequest'.kind \in {"approve", "addEthLiquidity", "addTokenLiquidity"}
       THEN /\ Cardinality(walletCalls) + nextHash <= MaxTxs
            /\ lastRequest' \notin walletCalls
            /\ walletCalls' = walletCalls \cup {lastRequest'}
       ELSE walletCalls' = walletCalls
    /\ UNCHANGED <<wallet, symbol, balance, amount, userNeedsToApprove,
                   txSubmitted, allowance, checks, pendingTx, nextHash>>
    /\ poolCalls' = <<>>
    /\ UNCHANGED <<showSuccess, depositUrl, refreshes>>
    /\ UNCHANGED txVars

\* The wallet returns a transaction for a call: the form marks it submitted
\* and subscribes to its notify emitter.
WalletReturnsTx(c) ==
    /\ c \in walletCalls
    /\ walletCalls' = walletCalls \ {c}
    /\ txSubmitted' = TRUE
    /\ pendingTx' = pendingTx \cup {[hash |-> nextHash, call |-> c]}
    /\ nextHash' = nextHash + 1
    /\ lastRequest' = NoRequest
    /\ UNCHANGED <<wallet, symbol, balance, amount, userNeedsToApprove,
                   allowance, checks>>
    /\ poolCalls' = <<>>
    /\ UNCHANGED <<showSuccess, depositUrl, refreshes>>
    /\ UNCHANGED txVars

\* A handler that marks the request submitted without a transaction.
WalletReturnsNothingMarked(c) ==
    /\ c \in walletCalls
    /\ walletCalls' = walletCalls \ {c}
    /\ txSubmitted' = TRUE
    /\ lastRequest' = [kind |-> "rejected"]
    /\ poolCalls' = <<>>
    /\ UNCHANGED <<wallet, symbol, balance, amount, userNeedsToApprove,
                   allowance, checks, pendingTx, nextHash, showSuccess,
                   depositUrl, refreshes>>
    /\ UNCHANGED txVars

\* The wallet returns no transaction (the user rejected the request), or the
\* liquidity call throws and the catch logs the error.
WalletReturnsNothing(c) ==
    /\ c \in walletCalls
    /\ walletCalls' = walletCalls \ {c}
    /\ lastRequest' = [kind |-> "rejected"]
    /\ UNCHANGED <<wallet, symbol, balance, amount, userNeedsToApprove,
                   txSubmitted, allowance, checks, pendingTx, nextHash>>
    /\ poolCalls' = <<>>
    /\ UNCHANGED <<showSuccess, depositUrl, refreshes>>
    /\ UNCHANGED txVars

\* `https://etherscan.io/tx/${transaction.hash}`
EtherscanUrl(hash) == <<"https://etherscan.io/tx/", hash>>

\* A refresh that is due at once.
RefreshAtOnce(tx) ==
    [pool |-> tx.call.spender, delay |-> 0, waited |-> 0]

\* The setTimeout of the liquidity txConfirmed handler: the pool of the
\* handler's closure is refreshed REFRESH_DELAY after the confirmation.
\* Timeouts set at the same time for the same pool make the same calls at the
\* same time; they are one element of refreshes.
Refresh(tx) ==
    [pool |-> tx.call.spender, delay |-> REFRESH_DELAY, waited |-> 0]

\* The callback of the timeout: updatePool, then updateUser for the account of
\* the closure (the handler runs connected, so there is an account).
RefreshCalls(r) ==
    <<[op |-> "updatePool", pool |-> r.pool],
      [op |-> "updateUser", pool |-> r.pool]>>

\* A txConfirmed handler of an approval that only clears txSubmitted.
TxConfirmedKeepsApproval(tx) ==
    /\ tx \in pendingTx
    /\ pendingTx' = pendingTx \ {tx}
    /\ txSubmitted' = FALSE
    /\ IF tx.call.kind = "approve"
       THEN /\ allowance' = IF tx.call.token \in Tokens
                            THEN [allowance EXCEPT ![tx.call.token] = tx.call.amount]
                            ELSE allowance
            /\ UNCHANGED <<userNeedsToApprove, showSuccess, depositUrl,
                           refreshes>>
       ELSE /\ showSuccess' = TRUE
            /\ depositUrl' = EtherscanUrl(tx.hash)
            /\ refreshes' = refreshes \cup {Refresh(tx)}
            /\ UNCHANGED <<userNeedsToApprove, allowance>>
    /\ lastRequest' = NoRequest
    /\ poolCalls' = <<>>
    /\ UNCHANGED <<wallet, symbol, balance, amount, checks, walletCalls, nextHash>>
    /\ UNCHANGED txVars

\* txConfirmed of a subscribed transaction.  A confirmed approval has set the
\* allowance of the pool on the chain; a confirmed deposit signals success,
\* sets the deposit URL and schedules the refresh.
TxConfirmed(tx) ==
    /\ tx \in pendingTx
    /\ pendingTx' = pendingTx \ {tx}
    /\ txSubmitted' = FALSE
    /\ IF tx.call.kind = "approve"
       THEN /\ userNeedsToApprove' = FALSE
            /\ allowance' = IF tx.call.token \in Tokens
                            THEN [allowance EXCEPT ![tx.call.token] = tx.call.amount]
                            ELSE allowance
            /\ UNCHANGED <<showSuccess, depositUrl, refreshes>>
       ELSE /\ showSuccess' = TRUE
            /\ depositUrl' = EtherscanUrl(tx.hash)
            /\ refreshes' = refreshes \cup {Refresh(tx)}
            /\ UNCHANGED <<userNeedsToApprove, allowance>>
    /\ lastRequest' = NoRequest
    /\ poolCalls' = <<>>
    /\ UNCHANGED <<wallet, symbol, balance, amount, checks, walletCalls, nextHash>>
    /\ UNCHANGED txVars

\* A txError handler that leaves txSubmitted as it is.
TxErrorKeepsSubmitted(tx) ==
    /\ tx \in pendingTx
    /\ pendingTx' = pendingTx \ {tx}
    /\ lastRequest' = NoRequest
    /\ poolCalls' = <<>>
    /\ UNCHANGED <<wallet, symbol, balance, amount, userNeedsToApprove,
                   txSubmitted, allowance, checks, walletCalls, nextHash,
                   showSuccess, depositUrl, refreshes>>
    /\ UNCHANGED txVars

\* txError of a subscribed transaction.
TxError(tx) ==
    /\ tx \in pendingTx
    /\ pendingTx' = pendingTx \ {tx}
    /\ txSubmitted' = FALSE
    /\ lastRequest' = NoRequest
    /\ UNCHANGED <<wallet, symbol, balance, amount, userNeedsToApprove,
                   allowance, checks, walletCalls, nextHash>>
    /\ poolCalls' = <<>>
    /\ UNCHANGED <<showSuccess, depositUrl, refreshes>>
    /\ UNCHANGED txVars

\* Time passes for the timeouts that are waiting.
Tick ==
    /\ \E r \in refreshes : r.waited < r.delay
    /\ refreshes' = {[r EXCEPT !.waited = IF r.waited + TickMs < r.delay
                                          THEN r.waited + TickMs
                                          ELSE r.delay] : r \in refreshes}
    /\ lastRequest' = NoRequest
    /\ poolCalls' = <<>>
    /\ UNCHANGED <<wallet, symbol, balance, amount, userNeedsToApprove,
                   txSubmitted, allowance, checks, walletCalls, pendingTx,
                   nextHash, showSuccess, depositUrl>>
    /\ UNCHANGED txVars

\* A refresh timeout fires, not before its delay has passed.
RefreshFires(r) ==
    /\ r \in refreshes
    /\ r.waited >= r.delay
    /\ refreshes' = refreshes \ {r}
    /\ poolCalls' = RefreshCalls(r)
    /\ lastRequest' = NoRequest
    /\ UNCHANGED <<wallet, symbol, balance, amount, userNeedsToApprove,
                   txSubmitted, allowance, checks, walletCalls, pendingTx,
                   nextHash, showSuccess, depositUrl>>
    /\ UNCHANGED txVars

NextLiquidity ==
    \/ \E w \in {"none", "provider", "connected"} : WalletChange(w)
    \/ \E s \in Symbols : \E b \in BalancesOf(s) : SelectPool(s, b)
    \/ \E b \in BalancesOf(symbol) : BalanceChange(b)
    \/ \E text \in AmountInputs : AmountChange(text)
    \/ \E c \in checks : AllowanceReturns(c)
    \/ \E c \in checks : AllowanceFails(c)
    \/ Click
    \/ \E c \in walletCalls : WalletReturnsTx(c)
    \/ \E c \in walletCalls : WalletReturnsNothing(c)
    \/ \E tx \in pendingTx : TxConfirmed(tx)
    \/ \E tx \in pendingTx : TxError(tx)
    \/ Tick
    \/ \E r \in refreshes : RefreshFires(r)

\* The form as first rendered for the ETH pool with an empty balance.
LiquidityIdle ==
    /\ InitLiquidity
    /\ symbol = "ETH"
    /\ balance = Uint256(0)
    /\ allowance = [t \in Tokens |-> Uint256(0)]

InitForm == InitTransactions /\ InitLiquidity

SpecLiquidity == InitForm /\ [][NextLiquidity]_vars

\* ETH balances around what the max button keeps back: nothing, one wei, one
\* wei less than the reserve, the reserve, one wei more, twice the reserve.
EthBalances ==
    {Uint256(0), Uint256(1), SubLimbs(removeApproxMaxGas, Uint256(1), 1, 0),
     removeApproxMaxGas, MulLimbs(removeApproxMaxGas, 1, 1, 1),
     MulLimbs(removeApproxMaxGas, 2, 1, 0)}

\* The form of the ETH pool with its max button: the amount is typed or set
\* by the button, and the form button submits it.
InitMax ==
    /\ InitTransactions
    /\ FormIdle
    /\ symbol = "ETH"
    /\ balance \in EthBalances
    /\ allowance = [t \in Tokens |-> Uint256(0)]

NextMax ==
    \/ \E w \in {"none", "provider", "connected"} : WalletChange(w)
    \/ \E b \in EthBalances : BalanceChange(b)
    \/ \E text \in AmountInputs : AmountChange(text)
    \/ MaxClick
    \/ Click
    \/ \E c \in walletCalls : WalletReturnsTx(c)
    \/ \E c \in walletCalls : WalletReturnsNothing(c)

SpecMax == InitMax /\ [][NextMax]_vars

InitView == InitTransactions /\ LiquidityIdle

SpecTransactions == InitView /\ [][NextTransactions]_vars

\* No render of the hook is pending.
RenderSettled == ~mounted \/ timer = timerNext

\* Some armed deadline timeout fires.
DeadlineElapses == \E t \in armed : RenderSettled /\ DeadlineFires(t)

\* The hook as React schedules it: the render that setTimer scheduled in an
\* effect is performed in the task of the effect, before another event is
\* handled.
NextRendered ==
    \/ TimerRender
    \/ RenderSettled /\ Mount
    \/ \E b \in AccountValues : RenderSettled /\ AccountChange(b)
    \/ DeadlineElapses
    \/ RenderSettled /\ Unmount
    \/ RenderSettled /\ StartFetchingResolved
    \/ RenderSettled /\ StartFetchingRejected
    \/ \E a \in Accounts : RenderSettled /\ TransfersUpdated(a)

\* The hook with its scheduling: a scheduled render is performed, and the
\* timer table runs the callback of an armed timeout.
SpecTransactionsFair ==
    /\ InitView
    /\ [][NextRendered]_vars
    /\ WF_vars(TimerRender)
    /\ WF_vars(DeadlineElapses)

\* ------------------------------------------- claims about useTransactionsView

\* C1 (as claimed): while the hook tracks an account, a TransfersUpdated event
\* whose depositor is another account leaves rawFilledTx and rawOngoingTx as
\* they were.
C1_StaleUpdateIgnored ==
    [][\A a \in Accounts :
          (mounted /\ account # NoAccount /\ a # account /\ TransfersUpdated(a))
              => UNCHANGED <<rawFilledTx, rawOngoingTx>>]_vars

\* C2: when the account of the mounted hook changes from a non-empty account,
\* the first client call of the step is stopFetchingTransfers for the old
\* account and every startFetchingTransfers of the step is for the new
\* account; startFetchingTransfers is never called for the empty account; and
\* after every call of every step at most one account is being fetched.
C2_TeardownBeforeStart ==
    [][/\ (mounted /\ account # NoAccount /\ account' # account)
            => /\ lastCalls' # <<>>
               /\ lastCalls'[1] = Call("stop", account)
               /\ \A i \in 1..Len(lastCalls') :
                     lastCalls'[i].op = "start"
                         => i > 1 /\ lastCalls'[i].acct = account'
       /\ \A i \in 1..Len(lastCalls') :
             lastCalls'[i].op = "start" => lastCalls'[i].acct \in Accounts
       /\ \A k \in 0..Len(lastCalls') :
             Cardinality(ApplyCalls(fetching, SubSeq(lastCalls', 1, k))) <= 1
      ]_vars

\* C2 witness: the account went from 0xAA to 0xBB; the step stopped 0xAA, then
\* started 0xBB.
C2_Witness ==
    /\ mounted
    /\ account = "0xBB"
    /\ lastCalls = <<Call("stop", "0xAA"), Call("start", "0xBB")>>
    /\ fetching = {"0xBB"}

\* C3: when the deadline timeout of the session of the current account fires,
\* exactly one client call is issued, stopFetchingTransfers for that account,
\* the timeout cannot fire again, and rawFilledTx and rawOngoingTx are left as
\* they were.
C3_DeadlineExpiry ==
    [][\A t \in armed :
          (mounted /\ t.inst = mounts /\ t.acct = account /\ DeadlineFires(t))
              => /\ lastCalls' = <<Call("stop", account)>>
                 /\ account \notin fetching'
                 /\ t \notin armed'
                 /\ UNCHANGED <<rawFilledTx, rawOngoingTx>>]_vars

\* C3 witness: the deadline has fired for the current account (the only step
\* that stops the current account of a mounted hook) and a snapshot is kept.
C3_Witness ==
    /\ mounted
    /\ account # NoAccount
    /\ lastCalls = <<Call("stop", account)>>
    /\ armed = {}
    /\ rawFilledTx # {}

\* C4: when the account of the mounted hook changes or the hook is unmounted
\* while the account is non-empty, the step first calls stopFetchingTransfers
\* for that account and leaves both snapshots empty; with no account, the
\* teardown issues no stopFetchingTransfers and an account change leaves the
\* snapshots as they were.
C4_TeardownClears ==
    [][/\ (mounted /\ account # NoAccount /\ (account' # account \/ ~mounted'))
            => /\ lastCalls' # <<>>
               /\ lastCalls'[1] = Call("stop", account)
               /\ rawFilledTx' = {}
               /\ rawOngoingTx' = {}
       /\ (mounted /\ account = NoAccount /\ (account' # account \/ ~mounted'))
            => /\ \A i \in 1..Len(lastCalls') : lastCalls'[i].op # "stop"
               /\ fetching \subseteq fetching'
               /\ mounted' => UNCHANGED <<rawFilledTx, rawOngoingTx>>
      ]_vars

\* C4 witness: the account went from 0xAA, of which the client knows a filled
\* transfer, to 0xBB, and nothing is shown.
C4_Witness ==
    /\ mounted
    /\ account = "0xBB"
    /\ lastCalls = <<Call("stop", "0xAA"), Call("start", "0xBB")>>
    /\ clientFilled["0xAA"] # {}
    /\ rawFilledTx = {}
    /\ rawOngoingTx = {}

\* C5 (as claimed): whenever the hook is mounted and no render is pending, at
\* most one deadline timeout is armed, and an armed timeout is the one the
\* timer state holds and belongs to the session of the current account.
C5_SingleScopedTimer ==
    (mounted /\ timer = timerNext)
        => /\ Cardinality(armed) <= 1
           /\ \A t \in armed : t.id = timer /\ t.acct = account

C7_FailureClearsLoading ==
    (mounted /\ startReq = "failed") => ~initialLoading

\* ---------------------------------------------- claims about AddLiquidityForm

\* C8 (as claimed): every token.allowance query that returns sets
\* userNeedsToApprove to whether the allowance is below the required amount,
\* true when it is below and false when it is not.
C8_AllowanceDecision ==
    [][\A c \in checks :
          AllowanceReturns(c)
              => userNeedsToApprove' =
                     Lt(allowance[c.token], c.required)]_vars

\* C9 (as claimed): while the asset is ETH, userNeedsToApprove is false and
\* the button's handler has not requested an approval.
C9_NativeNeverNeedsApproval ==
    symbol = "ETH" => (~userNeedsToApprove /\ lastRequest.kind # "approve")

\* C10: every approval the form requests, the one just requested and those
\* awaiting the wallet or the chain, has amount 2^256 - 1 (sixteen limbs of
\* 2^16 - 1) and the pool of its token as spender; the one just requested has
\* the bridgeAddress prop as spender.
C10_ApprovalAmount ==
    LET maxUint256 == [i \in 1..16 |-> 65535]
        Good(c) == c.kind = "approve"
                       => c.amount = maxUint256 /\ c.spender = [pool |-> c.token]
    IN  /\ lastRequest.kind = "approve"
            => Good(lastRequest) /\ lastRequest.spender = bridgeAddress
        /\ \A c \in walletCalls : Good(c)
        /\ \A tx \in pendingTx : Good(tx.call)

\* C10 witness: an approval has just been requested while the amount entered
\* is 1, the balance is not zero and the allowance of the pool is zero.
C10_Witness ==
    /\ lastRequest.kind = "approve"
    /\ lastRequest \in walletCalls
    /\ amount = <<"1">>
    /\ balance # Uint256(0)
    /\ symbol \in Tokens
    /\ allowance[symbol] = Uint256(0)

\* C11: when txConfirmed arrives for a deposit with hash h, txSubmitted becomes
\* false, success is signalled, the deposit URL is the etherscan URL of h, a
\* refresh of the deposit's pool is scheduled 30000 ms ahead and no pool
\* client call is made yet; updatePool and updateUser are called only by a
\* scheduled refresh that has waited at least 30000 ms, updatePool first, both
\* for the pool of the deposit.
C11_ConfirmationHandling ==
    [][/\ \A tx \in pendingTx :
             (tx.call.kind # "approve" /\ TxConfirmed(tx))
                 => /\ ~txSubmitted'
                    /\ showSuccess'
                    /\ depositUrl' = <<"https://etherscan.io/tx/", tx.hash>>
                    /\ \E r \in refreshes' :
                          /\ r.pool = tx.call.spender
                          /\ r.delay = 30000
                          /\ r.waited = 0
                    /\ poolCalls' = <<>>
       /\ poolCalls' # <<>>
             => \E r \in refreshes \ refreshes' :
                   /\ r.waited >= 30000
                   /\ poolCalls' = <<[op |-> "updatePool", pool |-> r.pool],
                                     [op |-> "updateUser", pool |-> r.pool]>>
      ]_vars

\* C11 witness: after the deposit with hash 1 was confirmed its refresh has
\* fired: updatePool and updateUser were just called.
C11_Witness ==
    /\ showSuccess
    /\ depositUrl = <<"https://etherscan.io/tx/", 1>>
    /\ ~txSubmitted
    /\ Len(poolCalls) = 2
    /\ refreshes = {}

\* C12: when txError arrives for a deposit, txSubmitted becomes false,
\* userNeedsToApprove, showSuccess, the deposit URL and the scheduled refreshes
\* are as they were, no wallet or pool client call is made, the notification
\* of the transaction is over; and whatever has happened before, a click on
\* the form button while connected, with no approval needed and the amount 1,
\* requests a deposit.
C12_SubmissionErrorRecovery ==
    [][/\ \A tx \in pendingTx :
             (tx.call.kind # "approve" /\ TxError(tx))
                 => /\ ~txSubmitted'
                    /\ UNCHANGED <<userNeedsToApprove, showSuccess, depositUrl,
                                   refreshes, walletCalls, allowance>>
                    /\ poolCalls' = <<>>
                    /\ lastRequest'.kind = "none"
                    /\ tx \notin pendingTx'
       /\ (Click /\ wallet = "connected" /\ ~userNeedsToApprove
               /\ amount = <<"1">>)
             => /\ lastRequest'.kind \in {"addEthLiquidity", "addTokenLiquidity"}
                /\ lastRequest' \in walletCalls'
      ]_vars

\* C12 witness: the first transaction, a deposit, has ended with txError:
\* nothing is in flight, no approval is needed or was confirmed, and no
\* success was signalled.
C12_Witness ==
    /\ nextHash = 2
    /\ pendingTx = {}
    /\ walletCalls = {}
    /\ ~txSubmitted
    /\ ~userNeedsToApprove
    /\ \A t \in Tokens : allowance[t] # MAX_UINT_VAL
    /\ ~showSuccess
    /\ depositUrl = NoUrl
    /\ refreshes = {}
    /\ wallet = "connected"
    /\ amount = <<"1">>

\* C13 (as claimed): at most one transaction is subscribed and not yet
\* resolved, and a click on the form button while a transaction is awaiting
\* its confirmation requests neither an approval nor a deposit.
C13_SingleInFlight ==
    [][/\ Cardinality(pendingTx') <= 1
       /\ (Click /\ pendingTx # {})
             => lastRequest'.kind
                    \notin {"approve", "addEthLiquidity", "addTokenLiquidity"}
      ]_vars

\* C14 (as claimed): a click requests a deposit only when the wallet is
\* connected with a signer, no approval is needed and the amount is a number
\* greater than 0, and then it requests exactly one, addEthLiquidity for ETH
\* and addTokenLiquidity otherwise; with an amount that is zero or not a
\* number a click requests neither an approval nor a deposit.
C14_SubmitDispatch ==
    [][Click
          => /\ lastRequest'.kind \in {"addEthLiquidity", "addTokenLiquidity"}
                  => /\ isConnected /\ signer /\ ~userNeedsToApprove
                     /\ IsPositive(amount)
                     /\ lastRequest'.kind = IF symbol = "ETH"
                                            THEN "addEthLiquidity"
                                            ELSE "addTokenLiquidity"
                     /\ walletCalls' = walletCalls \cup {lastRequest'}
             /\ ~IsPositive(amount)
                  => /\ lastRequest'.kind
                            \notin {"approve", "addEthLiquidity",
                                    "addTokenLiquidity"}
                     /\ walletCalls' = walletCalls
      ]_vars

\* C15: a click on the form button while there is no provider calls init() of
\* onboard and nothing else: no approval or deposit is requested of the
\* wallet, no pool client call is made, and txSubmitted, userNeedsToApprove,
\* showSuccess, the deposit URL, the subscribed transactions and the
\* scheduled refreshes are as they were.
C15_WalletNotConnected ==
    [][(Click /\ wallet = "none")
          => /\ lastRequest' = [kind |-> "init"]
             /\ walletCalls' = walletCalls
             /\ poolCalls' = <<>>
             /\ UNCHANGED <<txSubmitted, userNeedsToApprove, showSuccess,
                            depositUrl, pendingTx, refreshes, allowance>>
      ]_vars

\* C15 witness: init() was just called with no provider, although an approval
\* is needed and the amount entered is 1.
C15_Witness ==
    /\ wallet = "none"
    /\ lastRequest = [kind |-> "init"]
    /\ userNeedsToApprove
    /\ amount = <<"1">>
    /\ walletCalls = {}

C17_RejectedApproval ==
    [][\A c \in walletCalls :
          (c.kind = "approve" /\ WalletReturnsNothing(c))
              => /\ UNCHANGED <<userNeedsToApprove, txSubmitted, pendingTx,
                                nextHash, showSuccess, depositUrl, refreshes,
                                allowance>>
                 /\ walletCalls' = walletCalls \ {c}
                 /\ poolCalls' = <<>>
                 /\ lastRequest'.kind = "rejected"
      ]_vars

\* C17 witness: the only request, an approval, was just rejected: an approval
\* is still needed, nothing was submitted and nothing awaits the wallet.
C17_Witness ==
    /\ isConnected
    /\ userNeedsToApprove
    /\ ~txSubmitted
    /\ walletCalls = {}
    /\ pendingTx = {}
    /\ nextHash = 1
    /\ lastRequest.kind = "rejected"
    /\ \A t \in Tokens : allowance[t] = Uint256(0)

\* C19: for every ETH balance the max button sets the amount to the decimal
\* text of the balance minus 0.1 ETH (10^17 wei), with a minus sign when the
\* balance is smaller than that; and whatever the amount is, typed or set by
\* the max button, every deposit a click requests is for an amount text that
\* is a number greater than 0, and for a number of wei that is not zero.
C19_MaxNeverNegative ==
    [][/\ (MaxClick /\ symbol = "ETH")
             => LET reserve == <<0, 23946, 17784, 355,
                                 0, 0, 0, 0, 0, 0, 0, 0, 0, 0, 0, 0>>
                IN  IF Lt(balance, reserve)
                    THEN /\ Head(amount') = "-"
                         /\ toWeiSafe(Tail(amount'), 18)
                                = SubLimbs(reserve, balance, 1, 0)
                    ELSE /\ Head(amount') # "-"
                         /\ toWeiSafe(amount', 18)
                                = SubLimbs(balance, reserve, 1, 0)
       /\ (Click /\ lastRequest'.kind
                        \in {"addEthLiquidity", "addTokenLiquidity"})
             => /\ Head(amount) # "-"
                /\ \E i \in 1..Len(amount) :
                      amount[i] \in {"1", "2", "3", "4", "5", "6", "7", "8", "9"}
                /\ \E i \in 1..16 : lastRequest'.amount[i] # 0
      ]_vars

\* C19 witness: the max button was pressed with one wei less than the
\* reserve: the amount is -0.000000000000000001 and nothing is requested.
C19_Witness ==
    /\ isConnected
    /\ symbol = "ETH"
    /\ balance = <<65535, 23945, 17784, 355, 0, 0, 0, 0, 0, 0, 0, 0, 0, 0, 0, 0>>
    /\ amount = <<"-", "0", ".", "0", "0", "0", "0", "0", "0", "0", "0", "0",
                  "0", "0", "0", "0", "0", "0", "0", "0", "1">>
    /\ lastRequest.kind = "none"
    /\ walletCalls = {}
    /\ pendingTx = {}

\* ------------------------------------ more claims about useTransactionsView

\* C18 (as claimed): the TransfersUpdated listeners the hook has registered on
\* the client and not removed are at most one.
C18_ListenerScoped == listeners <= 1

====
